---- MODULE Spec2Model ----
(***************************************************************************)
(* Model of dev/integrate_html_files.py: the content extractor, the        *)
(* template extractor, the page composer and the directory driver.         *)
(*                                                                         *)
(* A text is a sequence of symbols.  A symbol is a piece of text that the  *)
(* program's patterns can only match as a whole: a tag, a word, or a       *)
(* single character.  Positions are character offsets, as in Python, and   *)
(* are computed from the width of each symbol.                             *)
(***************************************************************************)
EXTENDS Integers, Sequences, FiniteSets, TLC

VARIABLES
    docs_exists,       \* whether the docs directory exists
    files,             \* the directory: file name -> text, for the files present
    unreadable,        \* names whose open()/read() raises (bad encoding, no permission)
    pc,                \* position of main: start, scan, process, done, crashed
    run,               \* 1 for the first invocation of main, 2 for the second, ...
    template_data,     \* main's template_data
    toScan,            \* entries of docs_dir.glob('*.html') not yet visited
    standalone_files,  \* main's standalone_files
    idx,               \* position of the processing loop in standalone_files (1-based)
    outcome,           \* per candidate: the marker main printed for it in this run
    attempts,          \* per file: calls of extract_html_content in this run
    written,           \* names create_integrated_page wrote in this run
    summary,           \* the count of the final "Processed N files" line, -1 before
    startFiles,        \* the directory as it was when this run started
    everWritten,       \* names written by an earlier run
    faultLog,          \* transient environment faults so far: <<kind, file name, run>>
    fn_in,             \* input of the function under test (function specifications)
    fn_out,            \* its result
    fn_pc              \* "off", "ready" or "called"

mainVars == <<docs_exists, files, unreadable, pc, run, template_data, toScan,
              standalone_files, idx, outcome, attempts, written, summary,
              startFiles, everWritten, faultLog>>
fnVars == <<fn_in, fn_out, fn_pc>>
vars == <<docs_exists, files, unreadable, pc, run, template_data, toScan,
          standalone_files, idx, outcome, attempts, written, summary,
          startFiles, everWritten, faultLog, fn_in, fn_out, fn_pc>>

----------------------------------------------------------------------------
(* Bounds of the model *)

MaxRuns == 2
MaxFaults == 2
MaxIndexLen == 5
MaxStyleBlocks == 2
MaxItems == 2

----------------------------------------------------------------------------
(* Symbols *)

ART == "<article id=\"content\">"
NAV == "<nav id=\"sidebar\">"
ENAV == "</nav>"
FOOT == "<footer id=\"footer\">"
EHTML == "</html>"
EHEAD == "</head>"
NL == "\n"
SP == " "
Q == "\""

Width(tok) ==
    CASE tok = ART -> 22
      [] tok = NAV -> 18
      [] tok = ENAV -> 6
      [] tok = FOOT -> 20
      [] tok = EHTML -> 7
      [] tok = EHEAD -> 7
      [] tok = "<html>" -> 6
      [] tok = "<head>" -> 6
      [] tok = "<body>" -> 6
      [] tok = "<BODY>" -> 6
      [] tok = "</body>" -> 7
      [] tok = "<title>" -> 7
      [] tok = "</title>" -> 8
      [] tok = "<style>" -> 7
      [] tok = "<STYLE>" -> 7
      [] tok = "<style media=\"print\">" -> 21
      [] tok = "</style>" -> 8
      [] tok = "<script>" -> 8
      [] tok = "<script type=\"module\">" -> 22
      [] tok = "</script>" -> 9
      [] tok = "</footer>" -> 9
      [] tok = "<main>" -> 6
      [] tok = "</main>" -> 7
      [] tok = "</article>" -> 10
      [] tok = "<section id=\"section-intro\">" -> 28
      [] tok = "</section>" -> 10
      [] tok = "href=" -> 5
      [] tok = "class=" -> 6
      [] tok = "data-" -> 5
      [] tok = "index.html" -> 10
      [] tok = "Hello" -> 5
      [] tok = "Guide" -> 5
      [] tok = "Documentation" -> 13
      [] tok = "<html lang=\"en\">" -> 16
      [] tok = "<!doctype html>" -> 15
      [] tok = "<nav " -> 5
      [] tok = "<nav" -> 4
      [] tok = "<na" -> 3
      [] tok = "<n" -> 2
      [] OTHER -> 1

(* len(s), in characters *)
RECURSIVE CharLen(_)
CharLen(s) ==
    IF s = <<>> THEN 0
    ELSE IF Len(s) = 1 THEN Width(s[1])
    ELSE LET h == Len(s) \div 2
         IN  CharLen(SubSeq(s, 1, h)) + CharLen(SubSeq(s, h + 1, Len(s)))

OffsetOf(s, i) == CharLen(SubSeq(s, 1, i - 1))

SetMin(S) == CHOOSE x \in S : \A y \in S : x <= y
SetMax(S) == CHOOSE x \in S : \A y \in S : x >= y

(* str.find(sub, start): the lowest offset >= start at which sub occurs, or -1.
   A negative start counts from the end.  sub is one symbol. *)
Find(s, sub, start) ==
    LET n == CharLen(s)
        st == IF start < 0 THEN (IF n + start < 0 THEN 0 ELSE n + start) ELSE start
        hits == {i \in 1..Len(s) : s[i] = sub /\ OffsetOf(s, i) >= st}
    IN  IF hits = {} THEN -1 ELSE OffsetOf(s, SetMin(hits))

(* The first n characters of a symbol, 0 < n < Width(tok).  Only the sidebar
   marker is ever cut (a sidebar slice that ends at offset 5). *)
Cut(tok, n) ==
    IF tok = NAV
    THEN CASE n = 1 -> "<" [] n = 2 -> "<n" [] n = 3 -> "<na" [] n = 4 -> "<nav"
           [] n = 5 -> "<nav " [] OTHER -> "<nav id"
    ELSE "?"

(* The first symbol that starts at offset x or later, Len(s) + 1 if none; lo and hi
   enclose it. *)
RECURSIVE FirstAtOrAfter(_, _, _, _)
FirstAtOrAfter(s, x, lo, hi) ==
    IF lo = hi THEN lo
    ELSE LET mid == (lo + hi) \div 2
         IN  IF OffsetOf(s, mid) >= x THEN FirstAtOrAfter(s, x, lo, mid)
             ELSE FirstAtOrAfter(s, x, mid + 1, hi)

(* s[a:b] for 0 <= a, 0 <= b, a on a symbol boundary: the symbols that lie in
   [a, b), and the head of the one that b cuts. *)
Slice(s, a, b) ==
    LET first == FirstAtOrAfter(s, a, 1, Len(s) + 1)
        next == IF b >= CharLen(s) THEN Len(s) + 1
                ELSE FirstAtOrAfter(s, b + 1, 1, Len(s) + 1) - 1
        last == next - 1
        kept == IF first <= last THEN SubSeq(s, first, last) ELSE <<>>
    IN  IF first <= next /\ next <= Len(s) /\ OffsetOf(s, next) < b
        THEN kept \o <<Cut(s[next], b - OffsetOf(s, next))>>
        ELSE kept

Contains(s, tok) == \E i \in 1..Len(s) : s[i] = tok

(* '<nav id="sidebar">' in content *)
HasMarker(s) == Contains(s, NAV)

----------------------------------------------------------------------------
(* generate_pdoc_template *)

NoTemplate == [none |-> TRUE, before_content |-> <<>>, sidebar |-> <<>>, footer |-> <<>>]

(* line 92: if sidebar_start == -1 or sidebar_end == -1 *)
SidebarCheck(sidebar_start, sidebar_end) ==
    sidebar_start = -1 \/ sidebar_end = -1

(* The function on the text of docs/index.html (present = os.path.exists). *)
generate_pdoc_template(present, content) ==
    IF ~present THEN NoTemplate
    ELSE
    LET content_start == Find(content, ART, 0)
        sidebar_start == Find(content, NAV, 0)
        sidebar_end == Find(content, ENAV, sidebar_start) + 6
        footer_start == Find(content, FOOT, 0)
        footer_end == Find(content, EHTML, 0)
    IN  IF content_start = -1 THEN NoTemplate
        ELSE IF SidebarCheck(sidebar_start, sidebar_end) THEN NoTemplate
        ELSE IF footer_start = -1 \/ footer_end = -1 THEN NoTemplate
        ELSE [none |-> FALSE,
              before_content |-> Slice(content, 0, content_start),
              sidebar |-> Slice(content, sidebar_start, sidebar_end),
              footer |-> Slice(content, footer_start, footer_end)]

----------------------------------------------------------------------------
(* Regular expressions of the program, on symbols *)

IsSpace(tok) == tok \in {SP, NL}

(* str.strip() *)
Strip(s) ==
    LET solid == {i \in 1..Len(s) : ~IsSpace(s[i])}
    IN  IF solid = {} THEN <<>> ELSE SubSeq(s, SetMin(solid), SetMax(solid))

(* Symbols whose text has a double quote in it *)
HasQuote(tok) ==
    tok \in {Q, ART, NAV, FOOT, "<style media=\"print\">", "<style media=\"screen\">",
             "<script type=\"module\">", "<section id=\"section-intro\">",
             "<html lang=\"en\">", "<meta name=\"description\" content=\"", "\" />",
             "<link rel=\"shortcut icon\">"}

(* <title[^>]*>, </title>, ... with re.IGNORECASE *)
IsTitleOpen(tok) == tok \in {"<title>", "<TITLE>"}
IsTitleClose(tok) == tok \in {"</title>", "</TITLE>"}
IsBodyOpen(tok) == tok \in {"<body>", "<BODY>"}
IsBodyClose(tok) == tok \in {"</body>", "</BODY>"}
IsHtmlTag(tok) == tok \in {"<html>", "<html lang=\"en\">", EHTML}
IsStyleOpen(tok) ==
    tok \in {"<style>", "<STYLE>", "<style media=\"print\">", "<style media=\"screen\">"}
IsStyleClose(tok) == tok \in {"</style>", "</STYLE>"}
IsScriptOpen(tok) == tok \in {"<script>", "<script type=\"module\">", "<script defer src>"}
IsModuleScriptOpen(tok) == tok = "<script type=\"module\">"
IsScriptClose(tok) == tok = "</script>"

(* One element kind: 1 title, 2 body, 3 style, 4 script, 5 module script *)
IsOpen(kind, tok) ==
    CASE kind = 1 -> IsTitleOpen(tok)
      [] kind = 2 -> IsBodyOpen(tok)
      [] kind = 3 -> IsStyleOpen(tok)
      [] kind = 4 -> IsScriptOpen(tok)
      [] OTHER -> IsModuleScriptOpen(tok)
IsClose(kind, tok) ==
    CASE kind = 1 -> IsTitleClose(tok)
      [] kind = 2 -> IsBodyClose(tok)
      [] kind = 3 -> IsStyleClose(tok)
      [] OTHER -> IsScriptClose(tok)

(* The leftmost match of <open>(.*?)<close> at or after symbol from: <<i, k>>, the
   places of the opening and of the first closing tag after it; <<0, 0>> if none. *)
FirstMatch(s, kind, from) ==
    LET opens == {i \in from..Len(s) :
                     IsOpen(kind, s[i]) /\ \E k \in (i + 1)..Len(s) : IsClose(kind, s[k])}
    IN  IF opens = {} THEN <<0, 0>>
        ELSE LET i == SetMin(opens)
             IN  <<i, SetMin({k \in (i + 1)..Len(s) : IsClose(kind, s[k])})>>

(* re.findall: the matches from left to right, without overlap.  With inner, a
   match gives group 1 (what is between the tags), else the whole match. *)
RECURSIVE FindAll(_, _, _, _)
FindAll(s, kind, from, inner) ==
    LET m == FirstMatch(s, kind, from)
    IN  IF m[1] = 0 THEN <<>>
        ELSE <<(IF inner THEN SubSeq(s, m[1] + 1, m[2] - 1) ELSE SubSeq(s, m[1], m[2]))>>
             \o FindAll(s, kind, m[2] + 1, inner)

(* '\n'.join(blocks) *)
RECURSIVE JoinNL(_)
JoinNL(blocks) ==
    IF blocks = <<>> THEN <<>>
    ELSE IF Len(blocks) = 1 THEN blocks[1]
    ELSE blocks[1] \o <<NL>> \o JoinNL(Tail(blocks))

(* re.sub(r'</?html[^>]*>', '', s) and re.sub(r'</?body[^>]*>', '', s) *)
RemoveHtmlTags(s) == LET keep(t) == ~IsHtmlTag(t) IN SelectSeq(s, keep)
RemoveBodyTags(s) == LET keep(t) == ~(IsBodyOpen(t) \/ IsBodyClose(t)) IN SelectSeq(s, keep)

(* str.lower() on one symbol *)
Lower(tok) ==
    CASE tok = "T" -> "t" [] tok = "A" -> "a" [] tok = "B" -> "b" [] tok = "L" -> "l"
      [] tok = "E" -> "e" [] tok = "P" -> "p" [] tok = "R" -> "r" [] tok = "I" -> "i"
      [] tok = "M" -> "m" [] tok = "G" -> "g" [] tok = "<STYLE>" -> "<style>"
      [] tok = "<BODY>" -> "<body>" [] OTHER -> tok

LowerAll(s) == [i \in 1..Len(s) |-> Lower(s[i])]

(* keyword in text *)
IsSubstring(k, s) ==
    \E i \in 1..(Len(s) - Len(k) + 1) : SubSeq(s, i, i + Len(k) - 1) = k

Keywords ==
    << <<"b", "a", "d", "g", "e">>, <<"m", "e", "r", "m", "a", "i", "d">>,
       <<"h", "i", "g", "h", "l", "i", "g", "h", "t">>, <<"c", "o", "d", "e">>,
       <<"p", "r", "e">>, <<"t", "a", "b", "l", "e">>, <<"i", "m", "g">> >>

(* Variant: the keyword test without .lower() *)
KeepStyleNoLower(style) ==
    \E n \in 1..Len(Keywords) : IsSubstring(Keywords[n], style)

(* line 46: any(keyword in style.lower() for keyword in [...]) *)
KeepStyle(style) ==
    \E n \in 1..Len(Keywords) : IsSubstring(Keywords[n], LowerAll(style))

(* lines 43-47: the kept blocks, stripped, in the order of style_matches *)
RECURSIVE UsefulStyles(_)
UsefulStyles(style_matches) ==
    IF style_matches = <<>> THEN <<>>
    ELSE (IF KeepStyle(Head(style_matches)) THEN <<Strip(Head(style_matches))>> ELSE <<>>)
         \o UsefulStyles(Tail(style_matches))

(* lines 38-49 *)
ExtractStyles(content) == JoinNL(UsefulStyles(FindAll(content, 3, 1, TRUE)))

(* lines 19-21 *)
ExtractTitle(content) ==
    LET m == FirstMatch(content, 1, 1)
    IN  IF m[1] # 0 THEN Strip(SubSeq(content, m[1] + 1, m[2] - 1))
        ELSE <<"Documentation">>

(* lines 23-36 *)
ExtractBody(content) ==
    LET m == FirstMatch(content, 2, 1)
        head_end == Find(content, EHEAD, 0)
    IN  IF m[1] # 0 THEN Strip(SubSeq(content, m[1] + 1, m[2] - 1))
        ELSE IF head_end # -1
             THEN RemoveBodyTags(RemoveHtmlTags(
                      Strip(Slice(content, head_end + 7, CharLen(content)))))
             ELSE content

(* lines 51-59 *)
ExtractScripts(content) ==
    LET scripts == JoinNL(FindAll(content, 4, 1, FALSE))
        import_script_matches == FindAll(content, 5, 1, FALSE)
    IN  IF import_script_matches # <<>>
        THEN JoinNL(import_script_matches) \o <<NL>> \o scripts
        ELSE scripts

NoData == [none |-> TRUE, title |-> <<>>, content |-> <<>>, styles |-> <<>>, scripts |-> <<>>]

(* extract_html_content; readable is whether open() and read() succeed *)
extract_html_content(readable, content) ==
    IF ~readable THEN NoData
    ELSE [none |-> FALSE,
          title |-> ExtractTitle(content),
          content |-> ExtractBody(content),
          styles |-> ExtractStyles(content),
          scripts |-> ExtractScripts(content)]

----------------------------------------------------------------------------
(* create_integrated_page *)

(* The first symbol at or after from that has a double quote in it, 0 if none *)
FirstQuote(s, from) ==
    LET qs == {j \in from..Len(s) : HasQuote(s[j])}
    IN  IF qs = {} THEN 0 ELSE SetMin(qs)

(* Where a match of href="#([^"]+)" that starts at symbol i ends, 0 if none starts
   there: [^"]+ takes everything up to the next double quote and must not be empty. *)
HrefMatchEnd(s, i) ==
    IF i + 3 <= Len(s) /\ s[i] = "href=" /\ s[i + 1] = Q /\ s[i + 2] = "#"
    THEN LET j == FirstQuote(s, i + 3)
         IN  IF j # 0 /\ (j > i + 3 \/ s[j] # Q) THEN j ELSE 0
    ELSE 0

(* line 123: re.sub(r'href="#([^"]+)"', r'href="index.html#\1"', sidebar) *)
RECURSIVE RewriteFrom(_, _)
RewriteFrom(s, i) ==
    IF i > Len(s) THEN <<>>
    ELSE LET j == HrefMatchEnd(s, i)
         IN  IF j = 0 THEN <<s[i]>> \o RewriteFrom(s, i + 1)
             ELSE <<"href=", Q, "index.html", "#">> \o SubSeq(s, i + 3, j)
                  \o RewriteFrom(s, j + 1)

(* Variant: sidebar.replace('#', 'index.html#') instead of the pattern *)
RECURSIVE RewriteEveryHash(_)
RewriteEveryHash(sidebar) ==
    IF sidebar = <<>> THEN <<>>
    ELSE (IF Head(sidebar) = "#" THEN <<"index.html", "#">> ELSE <<Head(sidebar)>>)
         \o RewriteEveryHash(Tail(sidebar))

RewriteSidebar(sidebar) == RewriteFrom(sidebar, 1)

(* The fixed text of the page before the title.  Text no pattern of the program
   looks into is shortened to one symbol. *)
PageHead ==
    <<"<!doctype html>", NL, "<html lang=\"en\">", NL, "<head>", NL, "<meta>", NL>>

(* Lines 133-155.  Each style sheet is shortened to one keyword of the allowlist it
   contains (line 138: code, line 139: pre, line 140: img, line 144: badge). *)
PageStyles ==
    <<"<link>", NL,
      "<style>", "c", "o", "d", "e", "</style>", NL,
      "<style media=\"screen\">", "p", "r", "e", "</style>", NL,
      "<style media=\"print\">", "i", "m", "g", "</style>", NL, NL,
      "<style>", NL, "b", "a", "d", "g", "e", NL>>

(* Lines 157-165 *)
PageBodyOpen ==
    <<NL, "</style>", NL, "<script defer src>", "</script>", NL,
      "<script>", "h", "l", "j", "s", "</script>", NL,
      "<link rel=\"shortcut icon\">", NL, EHEAD, NL, "<body>", NL, "<main>", NL,
      ART, NL, "<section id=\"section-intro\">", NL>>

(* Variant: the page without {sidebar} *)
ComposeNoSidebar(html_data, template) ==
    PageHead \o <<"<title>">> \o html_data.title \o <<"</title>", NL,
        "<meta name=\"description\" content=\"">> \o html_data.title \o <<"\" />", NL>>
    \o PageStyles \o html_data.styles \o PageBodyOpen
    \o html_data.content \o <<NL, "</section>", NL, "</article>", NL, NL>>
    \o <<NL, "</main>", NL, NL>> \o template.footer
    \o <<NL, NL>> \o html_data.scripts \o <<NL>>

(* Variant: the page without {html_data['content']} *)
ComposeBodyDropped(html_data, template) ==
    PageHead \o <<"<title>">> \o html_data.title \o <<"</title>", NL,
        "<meta name=\"description\" content=\"">> \o html_data.title \o <<"\" />", NL>>
    \o PageStyles \o html_data.styles \o PageBodyOpen
    \o <<NL, "</section>", NL, "</article>", NL, NL>>
    \o RewriteSidebar(template.sidebar) \o <<NL, "</main>", NL, NL>> \o template.footer
    \o <<NL, NL>> \o html_data.scripts \o <<NL>>

(* lines 118-176: integrated_html *)
ComposePage(html_data, template) ==
    PageHead \o <<"<title>">> \o html_data.title \o <<"</title>", NL,
        "<meta name=\"description\" content=\"">> \o html_data.title \o <<"\" />", NL>>
    \o PageStyles \o html_data.styles \o PageBodyOpen
    \o html_data.content \o <<NL, "</section>", NL, "</article>", NL, NL>>
    \o RewriteSidebar(template.sidebar) \o <<NL, "</main>", NL, NL>> \o template.footer
    \o <<NL, NL>> \o html_data.scripts \o <<NL>>


----------------------------------------------------------------------------
(* Specifications of the functions on their own: the input is drawn from a
   bounded set, one action calls the function. *)

SeqsUpTo(S, n) == UNION {[1..k -> S] : k \in 0..n}

RECURSIVE Flatten(_)
Flatten(ss) == IF ss = <<>> THEN <<>> ELSE Head(ss) \o Flatten(Tail(ss))

MainOff ==
    /\ docs_exists = FALSE
    /\ files = <<>>
    /\ unreadable = {}
    /\ pc = "off"
    /\ run = 0
    /\ template_data = NoTemplate
    /\ toScan = {}
    /\ standalone_files = <<>>
    /\ idx = 0
    /\ outcome = <<>>
    /\ attempts = <<>>
    /\ written = {}
    /\ summary = -1
    /\ startFiles = <<>>
    /\ everWritten = {}
    /\ faultLog = {}

(* --- generate_pdoc_template --- *)

IndexAlphabet == {ART, NAV, ENAV, FOOT, EHTML, "x"}

TemplateInit ==
    /\ MainOff
    /\ fn_pc = "ready"
    /\ fn_out = NoTemplate
    /\ \/ fn_in = [present |-> FALSE, content |-> <<>>]
       \/ \E c \in SeqsUpTo(IndexAlphabet, MaxIndexLen) :
              fn_in = [present |-> TRUE, content |-> c]

CallTemplate ==
    /\ fn_pc = "ready"
    /\ fn_out' = generate_pdoc_template(fn_in.present, fn_in.content)
    /\ fn_pc' = "called"
    /\ UNCHANGED <<fn_in, mainVars>>

SpecTemplate == TemplateInit /\ [][CallTemplate]_vars

(* --- the style filter of extract_html_content --- *)

StyleWords ==
    { <<"t", "a", "b", "l", "e">>, <<"T", "a", "B", "L", "E">>,
      <<"m", "a", "r", "g", "i", "n">>, <<SP, "i", "m", "g", NL>>,
      <<"p", "r", "x", "e">>, <<"b", "a", "r", "c", "o", "d", "e">> }

StyleBlocks ==
    [open : {"<style>", "<STYLE>", "<style media=\"print\">"}, text : StyleWords]

StyleDoc(blocks) ==
    <<"<head>", NL>>
    \o Flatten([i \in 1..Len(blocks) |->
                   <<blocks[i].open>> \o blocks[i].text \o <<"</style>", NL>>])
    \o <<EHEAD, "<body>", "Hello", "</body>">>

StylesInit ==
    /\ MainOff
    /\ fn_pc = "ready"
    /\ fn_out = NoData
    /\ fn_in \in SeqsUpTo(StyleBlocks, MaxStyleBlocks)

CallExtract ==
    /\ fn_pc = "ready"
    /\ fn_out' = extract_html_content(TRUE, StyleDoc(fn_in))
    /\ fn_pc' = "called"
    /\ UNCHANGED <<fn_in, mainVars>>

SpecStyles == StylesInit /\ [][CallExtract]_vars

(* --- the sidebar rewrite of create_integrated_page --- *)

AttrValues ==
    { <<"#", "m">>, <<"#">>, <<"index.html", "#", "m">>, <<"m">>, <<"m", "#", "m">> }

AttrItems == [name : {<<"href=">>, <<"class=">>, <<"data-", "href=">>}, value : AttrValues]

ItemText(item) == <<SP>> \o item.name \o <<Q>> \o item.value \o <<Q>>

SidebarOf(items) ==
    <<NAV>> \o Flatten([i \in 1..Len(items) |-> ItemText(items[i])]) \o <<ENAV>>

SampleData ==
    [none |-> FALSE, title |-> <<"Guide">>, content |-> <<"Hello">>,
     styles |-> <<>>, scripts |-> <<>>]

RewriteInit ==
    /\ MainOff
    /\ fn_pc = "ready"
    /\ fn_out = <<>>
    /\ fn_in \in SeqsUpTo(AttrItems, MaxItems)

CallCompose ==
    /\ fn_pc = "ready"
    /\ fn_out' = ComposePage(SampleData,
                     [none |-> FALSE, before_content |-> <<>>,
                      sidebar |-> SidebarOf(fn_in), footer |-> <<FOOT, "</footer>">>])
    /\ fn_pc' = "called"
    /\ UNCHANGED <<fn_in, mainVars>>

SpecRewrite == RewriteInit /\ [][CallCompose]_vars

----------------------------------------------------------------------------
(* main: the directory driver.  One action per step of main; a second invocation
   starts when the first has ended. *)

IndexName == "index.html"
AllNames == {"index.html", "guide.html", "api.html", "notes.txt"}

(* The suffix of a file name, which glob('*.html') matches on *)
Ext(name) == IF name = "notes.txt" THEN "txt" ELSE "html"

(* docs/index.html as pdoc writes it, with an in-page link in the sidebar *)
IndexFull ==
    <<"<head>", EHEAD, "<body>", "<main>", ART, "x", "</article>",
      NAV, SP, "href=", Q, "#", "m", Q, ENAV, "</main>",
      FOOT, "</footer>", "</body>", EHTML>>
(* a minimal index page with all four anchors *)
IndexMinimal == <<ART, NAV, "x", ENAV, FOOT, "</footer>", EHTML>>
(* the sidebar is never closed *)
IndexOpenNav == <<ART, NAV, FOOT, "</footer>", EHTML>>
(* no content article *)
IndexNoArticle == <<NAV, ENAV, FOOT, "</footer>", EHTML>>

IndexDocs == {IndexFull, IndexMinimal, IndexOpenNav, IndexNoArticle}

(* a standalone page with a title and a body *)
DocGuide ==
    <<"<html>", "<head>", "<title>", "Guide", "</title>", EHEAD,
      "<body>", SP, "Hello", NL, "</body>", EHTML>>
(* a page that has the sidebar already *)
DocWrapped == <<"<html>", "<body>", NAV, ENAV, "Hello", "</body>", EHTML>>
(* a standalone page without body tags, with a style block *)
DocNoBody ==
    <<"<html>", "<head>", "<style>", "t", "a", "b", "l", "e", "</style>", EHEAD,
      NL, "Hello", EHTML>>

FileDocs == {DocGuide, DocWrapped, DocNoBody}

Range(f) == {f[i] : i \in DOMAIN f}

Restrict(f, S) == [n \in S |-> f[n]]

Fresh ==
    /\ pc = "start"
    /\ template_data = NoTemplate
    /\ toScan = {}
    /\ standalone_files = <<>>
    /\ idx = 0
    /\ outcome = [n \in AllNames |-> "none"]
    /\ attempts = [n \in AllNames |-> 0]
    /\ written = {}
    /\ summary = -1

Init ==
    /\ fn_in = <<>> /\ fn_out = <<>> /\ fn_pc = "off"
    /\ run = 1
    /\ everWritten = {}
    /\ faultLog = {}
    /\ Fresh
    /\ docs_exists \in BOOLEAN
    /\ IF ~docs_exists
       THEN files = Restrict(<<>>, {}) /\ unreadable = {}
       ELSE /\ \E present \in SUBSET {"index.html", "guide.html", "api.html"} :
               \E ix \in IndexDocs : \E g \in FileDocs : \E a \in FileDocs :
                   files = Restrict([n \in AllNames |->
                                        CASE n = "index.html" -> ix
                                          [] n = "guide.html" -> g
                                          [] n = "api.html" -> a
                                          [] OTHER -> DocGuide],
                                    present \cup {"notes.txt"})
            /\ unreadable \in SUBSET (DOMAIN files \ {"notes.txt"})
    /\ startFiles = files

(* Variant: glob('*') *)
GlobAllFiles(names) == names

(* line 199: docs_dir.glob('*.html') *)
GlobHtml(names) == {n \in names : Ext(n) = "html"}

(* Variant: the classification without the marker test of line 207 *)
IsStandaloneNoMarkerTest(filename, readable, content) ==
    filename # IndexName /\ readable

(* lines 200-210: whether the loop appends filename to standalone_files *)
IsStandalone(filename, readable, content) ==
    filename # IndexName /\ readable /\ ~HasMarker(content)

(* Variant: the page is created whatever extract_html_content returned *)
WillWriteAlways(html_data) == TRUE

(* line 228: if html_data *)
WillWrite(html_data) == ~html_data.none

(* lines 183-192 *)
Start ==
    /\ pc = "start"
    /\ IF ~docs_exists
       THEN pc' = "done" /\ UNCHANGED <<template_data, toScan>>
       ELSE IF IndexName \in DOMAIN files /\ IndexName \in unreadable
       THEN pc' = "crashed" /\ UNCHANGED <<template_data, toScan>>
       ELSE LET t == IF IndexName \in DOMAIN files
                     THEN generate_pdoc_template(TRUE, files[IndexName])
                     ELSE generate_pdoc_template(FALSE, <<>>)
            IN  /\ template_data' = t
                /\ IF t.none
                   THEN pc' = "done" /\ toScan' = {}
                   ELSE pc' = "scan" /\ toScan' = GlobHtml(DOMAIN files)
    /\ UNCHANGED <<docs_exists, files, unreadable, run, standalone_files, idx, outcome,
                   attempts, written, summary, startFiles, everWritten, faultLog, fnVars>>

(* lines 199-214: one round of the classification loop, in the order the
   directory listing happens to give; after the last one, lines 212-218 *)
Scan(html_file) ==
    /\ pc = "scan"
    /\ html_file \in toScan
    /\ toScan' = toScan \ {html_file}
    /\ standalone_files' =
           IF IsStandalone(html_file, html_file \notin unreadable, files[html_file])
           THEN Append(standalone_files, html_file)
           ELSE standalone_files
    /\ IF toScan' # {} THEN pc' = "scan" /\ idx' = idx
       ELSE IF standalone_files' = <<>> THEN pc' = "done" /\ idx' = idx
       ELSE pc' = "process" /\ idx' = 1
    /\ UNCHANGED <<docs_exists, files, unreadable, run, template_data, outcome,
                   attempts, written, summary, startFiles, everWritten, faultLog, fnVars>>

(* lines 221-237: one round of the processing loop.  readable: whether the read in
   extract_html_content succeeds; writable: whether the write in
   create_integrated_page does (an exception there is not caught). *)
Process(readable, writable) ==
    /\ pc = "process"
    /\ idx <= Len(standalone_files)
    /\ LET filename == standalone_files[idx]
           exists == filename \in DOMAIN files
           html_data == extract_html_content(readable, IF exists THEN files[filename] ELSE <<>>)
           last == idx = Len(standalone_files)
       IN  /\ (~exists) => (readable /\ writable)
           /\ (exists /\ ~readable) => writable
           /\ IF ~exists
              THEN /\ outcome' = [outcome EXCEPT ![filename] = "skipped"]
                   /\ UNCHANGED <<files, attempts, written, faultLog>>
                   /\ idx' = idx + 1
                   /\ IF last THEN pc' = "done" /\ summary' = Len(standalone_files)
                      ELSE pc' = "process" /\ summary' = summary
              ELSE /\ attempts' = [attempts EXCEPT ![filename] = @ + 1]
                   /\ IF ~WillWrite(html_data)
                      THEN /\ outcome' = [outcome EXCEPT ![filename] = "failed"]
                           /\ faultLog' = IF readable THEN faultLog
                                          ELSE faultLog \cup {<<"extract", filename, run>>}
                           /\ UNCHANGED <<files, written>>
                           /\ idx' = idx + 1
                           /\ IF last THEN pc' = "done" /\ summary' = Len(standalone_files)
                              ELSE pc' = "process" /\ summary' = summary
                      ELSE IF ~writable
                      THEN /\ faultLog' = faultLog \cup {<<"write", filename, run>>}
                           /\ pc' = "crashed"
                           /\ UNCHANGED <<files, written, outcome, idx, summary>>
                      ELSE /\ files' = [files EXCEPT ![filename] =
                                           ComposePage(html_data, template_data)]
                           /\ written' = written \cup {filename}
                           /\ outcome' = [outcome EXCEPT ![filename] = "integrated"]
                           /\ faultLog' = IF readable THEN faultLog
                                          ELSE faultLog \cup {<<"extract", filename, run>>}
                           /\ idx' = idx + 1
                           /\ IF last THEN pc' = "done" /\ summary' = Len(standalone_files)
                              ELSE pc' = "process" /\ summary' = summary
    /\ Cardinality(faultLog') <= MaxFaults
    /\ UNCHANGED <<docs_exists, unreadable, run, template_data, toScan, standalone_files,
                   startFiles, everWritten, fnVars>>

(* Another process removes a candidate between the listing and its turn. *)
EnvDelete(name) ==
    /\ pc = "process"
    /\ \E i \in idx..Len(standalone_files) : standalone_files[i] = name
    /\ name \in DOMAIN files
    /\ Cardinality(faultLog) < MaxFaults
    /\ files' = Restrict(files, DOMAIN files \ {name})
    /\ faultLog' = faultLog \cup {<<"delete", name, run>>}
    /\ UNCHANGED <<docs_exists, unreadable, pc, run, template_data, toScan,
                   standalone_files, idx, outcome, attempts, written, summary,
                   startFiles, everWritten, fnVars>>

(* main is invoked again on the directory the last run left. *)
Rerun ==
    /\ pc \in {"done", "crashed"}
    /\ run < MaxRuns
    /\ run' = run + 1
    /\ startFiles' = files
    /\ everWritten' = everWritten \cup written
    /\ pc' = "start"
    /\ template_data' = NoTemplate
    /\ toScan' = {}
    /\ standalone_files' = <<>>
    /\ idx' = 0
    /\ outcome' = [n \in AllNames |-> "none"]
    /\ attempts' = [n \in AllNames |-> 0]
    /\ written' = {}
    /\ summary' = -1
    /\ UNCHANGED <<docs_exists, files, unreadable, faultLog, fnVars>>

Next ==
    \/ Start
    \/ \E f \in AllNames : Scan(f)
    \/ \E r \in BOOLEAN : \E w \in BOOLEAN : Process(r, w)
    \/ \E f \in AllNames : EnvDelete(f)
    \/ Rerun

Spec == Init /\ [][Next]_vars

----------------------------------------------------------------------------
(* Properties of the functions *)

(* s occurs in t as a run of consecutive symbols *)
IsInfix(s, t) == \E i \in 0..(Len(t) - Len(s)) : SubSeq(t, i + 1, i + Len(s)) = s

(* The four anchors of the index page: <article id="content">, <nav id="sidebar">
   with a </nav> after it, <footer id="footer">, </html> *)
AllAnchors(c) ==
    /\ Contains(c, ART)
    /\ \E i \in 1..Len(c) : c[i] = NAV /\ \E j \in (i + 1)..Len(c) : c[j] = ENAV
    /\ Contains(c, FOOT)
    /\ Contains(c, EHTML)

(* C3: generate_pdoc_template returns no result exactly when docs/index.html does
   not exist or one of the four anchors is missing from it. *)
C3_NoneIffAnchorMissing ==
    fn_pc = "called" =>
        (fn_out.none <=> ~(fn_in.present /\ AllAnchors(fn_in.content)))

(* What the template extractor does return when all four anchors are there: the
   regions named by the anchors (used by the driver's properties). *)
NavBlock(c) ==
    LET i == SetMin({n \in 1..Len(c) : c[n] = NAV})
        j == SetMin({n \in (i + 1)..Len(c) : c[n] = ENAV})
    IN  SubSeq(c, i, j)

(* A style text contains a keyword of the allowlist, letter case aside *)
KeywordHit(text) ==
    \E n \in 1..Len(Keywords) :
        \E i \in 0..(Len(text) - Len(Keywords[n])) :
            \A j \in 1..Len(Keywords[n]) : Lower(text[i + j]) = Keywords[n][j]

RECURSIVE ExpectedStyles(_, _)
ExpectedStyles(blocks, first) ==
    IF blocks = <<>> THEN <<>>
    ELSE IF KeywordHit(Head(blocks).text)
         THEN (IF first THEN <<>> ELSE <<NL>>) \o Strip(Head(blocks).text)
              \o ExpectedStyles(Tail(blocks), FALSE)
         ELSE ExpectedStyles(Tail(blocks), first)

(* C8: the styles extract_html_content returns are the texts of the <style> blocks
   that contain, case-insensitively, a keyword of the allowlist, each trimmed, in
   source order, joined by newlines; the empty text when no block is kept. *)
C8_StyleFilter ==
    fn_pc = "called" =>
        /\ fn_out.styles = ExpectedStyles(fn_in, TRUE)
        /\ (\A i \in 1..Len(fn_in) : ~KeywordHit(fn_in[i].text)) => fn_out.styles = <<>>

(* Two blocks, the first kept by a keyword in upper case, the second dropped. *)
C8_Witness ==
    /\ fn_pc = "called"
    /\ Len(fn_in) = 2
    /\ fn_in[1].text = <<"T", "a", "B", "L", "E">>
    /\ fn_in[2].text = <<"m", "a", "r", "g", "i", "n">>
    /\ fn_out.styles = <<"T", "a", "B", "L", "E">>

(* An href whose value is # followed by a fragment gets index.html before the #;
   every other attribute keeps its value (href="#", with no fragment, too). *)
ExpectedItem(item) ==
    IF item.name[Len(item.name)] = "href=" /\ Len(item.value) >= 2 /\ item.value[1] = "#"
    THEN [name |-> item.name, value |-> <<"index.html">> \o item.value]
    ELSE item

ExpectedItems(items) == [i \in 1..Len(items) |-> ExpectedItem(items[i])]

(* The sidebar of a composed page: from the marker to the first </nav> after it *)
PageSidebar(page) ==
    IF \E i \in 1..Len(page) : page[i] = NAV /\ \E j \in (i + 1)..Len(page) : page[j] = ENAV
    THEN NavBlock(page)
    ELSE <<>>

(* C6: in the composed page every href="#fragment" of the sidebar has become
   href="index.html#fragment", every href that does not start with # is as it was,
   and rewriting the rewritten sidebar again changes nothing. *)
C6_SidebarRewrite ==
    fn_pc = "called" =>
        /\ PageSidebar(fn_out) = SidebarOf(ExpectedItems(fn_in))
        /\ RewriteSidebar(PageSidebar(fn_out)) = PageSidebar(fn_out)

(* A sidebar with href="#m" and an href="index.html#m" already there. *)
C6_Witness ==
    /\ fn_pc = "called"
    /\ Len(fn_in) = 2
    /\ fn_in[1] = [name |-> <<"href=">>, value |-> <<"#", "m">>]
    /\ fn_in[2] = [name |-> <<"href=">>, value |-> <<"index.html", "#", "m">>]
    /\ IsInfix(<<"href=", Q, "index.html", "#", "m", Q, SP, "href=", Q, "index.html", "#", "m", Q>>,
               fn_out)

----------------------------------------------------------------------------
(* Properties of the driver *)

Candidates == Range(standalone_files)

(* main got past the template extraction and has finished the classification *)
ScanComplete == ~template_data.none /\ pc \in {"process", "done", "crashed"}

RunEnded == pc \in {"done", "crashed"}

(* docs/index.html had all four anchors when the run started *)
ValidIndexAtStart ==
    /\ IndexName \in DOMAIN startFiles
    /\ IndexName \notin unreadable
    /\ AllAnchors(startFiles[IndexName])

(* A page has a body element: <body ...> with a </body> after it *)
HasBodyElement(c) ==
    \E i \in 1..Len(c) : IsBodyOpen(c[i]) /\ \E j \in (i + 1)..Len(c) : IsBodyClose(c[j])

(* What is between the first <body ...> and the first </body> after it, trimmed *)
BodyInner(c) ==
    LET i == SetMin({n \in 1..Len(c) : IsBodyOpen(c[n])})
        j == SetMin({n \in (i + 1)..Len(c) : IsBodyClose(c[n])})
    IN  Strip(SubSeq(c, i + 1, j - 1))

(* The files a run is to wrap: *.html in docs/, not index.html, readable, no marker,
   with a body element *)
StandaloneWithBody ==
    {n \in DOMAIN startFiles :
        /\ Ext(n) = "html" /\ n # IndexName /\ n \notin unreadable
        /\ ~HasMarker(startFiles[n]) /\ HasBodyElement(startFiles[n])}

(* C1: with an index page that has all four anchors, a second run of main changes
   nothing.  Every file an earlier run wrote has the marker, is no candidate and
   keeps its content; and when no I/O fault or deletion interfered with the runs,
   the second run finds no candidate at all and every file is as the first run
   left it. *)
C1_SecondRunNoOp ==
    (run >= 2 /\ ValidIndexAtStart) =>
        /\ \A n \in everWritten :
               /\ n \notin Candidates
               /\ n \notin written
               /\ n \in DOMAIN files => (files[n] = startFiles[n] /\ HasMarker(files[n]))
        /\ faultLog = {} => (standalone_files = <<>> /\ files = startFiles)

(* The second run has ended after a first run that wrapped a file. *)
C1_Witness ==
    /\ run = 2 /\ pc = "done" /\ ValidIndexAtStart /\ ~template_data.none
    /\ faultLog = {}
    /\ everWritten # {}
    /\ standalone_files = <<>>

(* C2: when a run that got past the template extraction ends, every candidate has
   been processed exactly once (or was skipped because its file was gone),
   whatever happened to the other candidates. *)
C2_EveryCandidateProcessedOnce ==
    (RunEnded /\ ~template_data.none) =>
        \A n \in Candidates : attempts[n] = 1 \/ outcome[n] = "skipped"

(* C4: a candidate for which extract_html_content failed is not written and keeps
   its content, has the failure marker, and main goes on with the candidates after
   it: the loop has moved past it, and a run that reaches its end has handled every
   candidate after it. *)
C4_ExtractionFailureSkips ==
    \A i \in 1..Len(standalone_files) :
        LET n == standalone_files[i]
        IN  <<"extract", n, run>> \in faultLog =>
                /\ outcome[n] = "failed"
                /\ n \notin written
                /\ n \in DOMAIN files /\ files[n] = startFiles[n]
                /\ pc \in {"process", "crashed"} => idx > i
                /\ pc = "done" =>
                       \A j \in (i + 1)..Len(standalone_files) :
                           outcome[standalone_files[j]] # "none"

(* The first candidate failed extraction, the second was wrapped after it. *)
C4_Witness ==
    /\ pc = "done" /\ Len(standalone_files) = 2
    /\ outcome[standalone_files[1]] = "failed"
    /\ attempts[standalone_files[1]] = 1
    /\ outcome[standalone_files[2]] = "integrated"
    /\ standalone_files[2] \in written

(* C5 as stated: the candidates are exactly the *.html files of docs/ other than
   index.html whose content has no marker. *)
C5_CandidateIff ==
    ScanComplete =>
        Candidates = {n \in DOMAIN startFiles :
                         Ext(n) = "html" /\ n # IndexName /\ ~HasMarker(startFiles[n])}

(* C5, amended: ... whose content can be read and has no marker. *)
C5_CandidateIffReadable ==
    ScanComplete =>
        /\ Candidates = {n \in DOMAIN startFiles :
                            /\ Ext(n) = "html" /\ n # IndexName
                            /\ n \notin unreadable /\ ~HasMarker(startFiles[n])}
        /\ \A i \in 1..Len(standalone_files) : \A j \in 1..Len(standalone_files) :
               standalone_files[i] = standalone_files[j] => i = j

(* One candidate, one file left out for its marker; notes.txt is left out too. *)
C5_Witness ==
    /\ ScanComplete
    /\ Candidates = {"guide.html"}
    /\ "api.html" \in DOMAIN startFiles /\ HasMarker(startFiles["api.html"])
    /\ "api.html" \notin unreadable
    /\ ~HasMarker(startFiles["notes.txt"])

(* C7 as stated: after a run without faults, on an index page with all four
   anchors, every standalone file with a body element holds its body's content
   inside <section id="section-intro"> and the sidebar block of the index page,
   literally. *)
C7_LiteralSidebar ==
    (pc = "done" /\ ValidIndexAtStart /\ faultLog = {}) =>
        \A n \in StandaloneWithBody :
            /\ IsInfix(<<"<section id=\"section-intro\">", NL>> \o BodyInner(startFiles[n])
                           \o <<NL, "</section>">>, files[n])
            /\ IsInfix(NavBlock(startFiles[IndexName]), files[n])

(* C7, amended: on an index page with all four anchors, every file with a body
   element that a run rewrites holds its body's trimmed content inside
   <section id="section-intro"> and the sidebar block of the index page with each
   href="#fragment" rewritten to href="index.html#fragment"; and a run without
   faults rewrites every standalone file with a body element. *)
C7_RewrittenSidebar ==
    ValidIndexAtStart =>
        /\ \A n \in written :
               HasBodyElement(startFiles[n]) =>
                   /\ IsInfix(<<"<section id=\"section-intro\">", NL>>
                                  \o BodyInner(startFiles[n]) \o <<NL, "</section>">>,
                              files[n])
                   /\ IsInfix(RewriteSidebar(NavBlock(startFiles[IndexName])), files[n])
        /\ (pc = "done" /\ faultLog = {}) => StandaloneWithBody \subseteq written

(* guide.html, with <body> Hello </body>, was wrapped with the sidebar of an index
   page that has an in-page link. *)
C7_Witness ==
    /\ pc = "done" /\ run = 1 /\ faultLog = {} /\ ValidIndexAtStart
    /\ startFiles[IndexName] = IndexFull
    /\ "guide.html" \in StandaloneWithBody
    /\ startFiles["guide.html"] = DocGuide
    /\ IsInfix(<<"<section id=\"section-intro\">", NL, "Hello", NL, "</section>">>,
               files["guide.html"])
    /\ IsInfix(<<NAV, SP, "href=", Q, "index.html", "#", "m", Q, ENAV>>, files["guide.html"])

(* C9: the count of the final summary is the number of files the run extracted and
   rewrote. *)
C9_SummaryCountsProcessed ==
    summary # -1 => summary = Cardinality(written)

(* C10: a run writes only candidates; index.html, the files that had the marker
   and the files that are not *.html keep their content, and nothing is written
   when docs/ is missing or the template extraction fails. *)
C10_Frame ==
    /\ written \subseteq Candidates
    /\ \A n \in DOMAIN files : files[n] # startFiles[n] => n \in written
    /\ \A n \in DOMAIN startFiles :
           (n = IndexName \/ Ext(n) # "html" \/ HasMarker(startFiles[n])) =>
               (n \notin written /\ n \in DOMAIN files /\ files[n] = startFiles[n])
    /\ (~docs_exists \/ template_data.none) => (written = {} /\ files = startFiles)

(* A run wrote a candidate and left a file that had the marker alone. *)
C10_Witness ==
    /\ pc = "done" /\ run = 1
    /\ written = {"guide.html"}
    /\ files["guide.html"] # startFiles["guide.html"]
    /\ "api.html" \in DOMAIN startFiles /\ HasMarker(startFiles["api.html"])
    /\ files["api.html"] = startFiles["api.html"]
    /\ files[IndexName] = startFiles[IndexName]

====
